---- MODULE Spec2Model ----
(***************************************************************************)
(* State-machine model of the nomad-autoscaler agent: Agent.Run (the       *)
(* policy supervisor), Agent.monitorPolicy (one goroutine per policy),     *)
(* Agent.handlePolicy (one evaluation cycle) and the plugin load pass.     *)
(***************************************************************************)
EXTENDS Integers, Sequences, FiniteSets, TLC

VARIABLES
    config,          \* a.config: ScanInterval and the three plugin lists
    runPc,           \* position of Agent.Run
    runErr,          \* value returned by Agent.Run ("pending" until it returns)
    startup,         \* outcome of api.NewClient and the calls made by loadPlugins
    ctxDone,         \* ctx.Done() of the context handed to Run is closed
    policyMonitors,  \* Run's local map: policy ID -> cancel handle
    monitors,        \* monitorPolicy goroutines, indexed by the handle of their context
    cancelled,       \* handles whose policyCtx.Done() is closed
    cancelRequested, \* handles for which Run executed `go cancel()`
    recon,           \* what the last processed policy set did
    deliveries,      \* number of policy sets processed
    killed,          \* number of Kill calls per plugin manager
    lastLog,         \* last line logged for a feed error, a failed fetch or a finished cycle
    hpIn,            \* input of an isolated handlePolicy evaluation
    hpOut,           \* its result
    index            \* a blocking-query index tracked with helper/blocking

vars == <<config, runPc, runErr, startup, ctxDone, policyMonitors, monitors,
          cancelled, cancelRequested, recon, deliveries, killed, lastLog, hpIn, hpOut, index>>

supervisorVars == <<config, runPc, runErr, startup, ctxDone, policyMonitors,
                    monitors, cancelled, cancelRequested, recon, deliveries,
                    killed, lastLog>>

(***************************************************************************)
(* Bounds                                                                  *)
(***************************************************************************)
\* largest index a blocking query returns
MaxIndex == 11
\* number of policy sets delivered on policiesCn
MaxDeliveries == 3
\* longest policy list delivered at once
MaxPolicies == 2
\* longest action list a strategy returns
MaxActions == 2
\* longest configured plugin list per kind
MaxPlugins == 1

PolicyIDs == {"p1", "p2"}

\* fallback of monitorPolicy when ScanInterval does not parse, in seconds
FallbackSleep == 5

None == "none"

(***************************************************************************)
(* Policies (policystorage.Policy) as handlePolicy and monitorPolicy read  *)
(* them. Durations are whole seconds.                                      *)
(***************************************************************************)
Intervals == {0, 1}

Policy(id, interval, source, target, strategy, min, max) ==
    [ID |-> id, Source |-> source, Query |-> "cpu",
     Target |-> [Name |-> target, Config |-> "job=" \o target],
     Strategy |-> [Name |-> strategy, Min |-> min, Max |-> max,
                   Config |-> "target=" \o strategy],
     Interval |-> interval]

NoPolicy == [ID |-> None]

\* what ps.Get(ID) may return for a policy on a monitor tick
StoredPolicies(id) ==
    {Policy(id, i, "local-nomad", "local-nomad", "target-value", 1, 10) : i \in Intervals}

GetResults(id) ==
    {[err |-> TRUE, policy |-> NoPolicy]}
        \cup {[err |-> FALSE, policy |-> p] : p \in StoredPolicies(id)}

(***************************************************************************)
(* time.ParseDuration on the ScanInterval strings of the model             *)
(***************************************************************************)
ParseDuration(s) ==
    IF s = "1s" THEN [err |-> FALSE, d |-> 1]
    ELSE IF s = "2s" THEN [err |-> FALSE, d |-> 2]
    ELSE IF s = "5s" THEN [err |-> FALSE, d |-> 5]
    ELSE [err |-> TRUE, d |-> 0]

DefaultSleep(cfg) ==
    LET r == ParseDuration(cfg.ScanInterval)
    IN  IF r.err THEN FallbackSleep ELSE r.d

SleepDurationIgnoresPolicy(defaultSleep, policy) == defaultSleep

SleepDuration(defaultSleep, policy) ==
    IF policy.Interval # 0 THEN policy.Interval ELSE defaultSleep

(***************************************************************************)
(* Plugin load pass (loadPlugins and the three per-kind loaders).  Every   *)
(* RegisterPlugin, Dispense and SetConfig call succeeds except the one the *)
(* input `fail` designates; the first failure ends the pass.               *)
(***************************************************************************)
Kinds == {"apm", "target", "strategy"}
LoadStages == <<"RegisterPlugin", "Dispense", "SetConfig">>

ApmNames == <<"prometheus", "datadog", "influxdb">>
TargetNames == <<"aws-asg", "azure-vmss", "gce-mig">>
StrategyNames == <<"target-value", "threshold", "pass-through">>

PluginEntries(names, n) == [i \in 1..n |-> [Name |-> names[i], Driver |-> names[i]]]

\* the configurations the agent is started with
Configs ==
    {[ScanInterval |-> IF n = 0 THEN "2s" ELSE "",
      APMs |-> PluginEntries(ApmNames, n),
      Targets |-> PluginEntries(TargetNames, n),
      Strategies |-> PluginEntries(StrategyNames, n)] : n \in 0..MaxPlugins}

NoFail == [kind |-> None, idx |-> 0, stage |-> None]

LoadOutcomes ==
    {NoFail} \cup [kind : Kinds, idx : 1..(MaxPlugins + 1),
                   stage : {LoadStages[k] : k \in 1..3}]

LoadCall(kind, name, stage, ok) ==
    [kind |-> kind, name |-> name, stage |-> stage, ok |-> ok]

\* the three calls made for plugin i of a kind, cut at the first failure
RECURSIVE LoadOne(_, _, _, _, _)
LoadOne(kind, entry, i, k, fail) ==
    IF k > 3 THEN [err |-> FALSE, calls |-> <<>>]
    ELSE IF fail = [kind |-> kind, idx |-> i, stage |-> LoadStages[k]]
         THEN [err |-> TRUE,
               calls |-> <<LoadCall(kind, entry.Name, LoadStages[k], FALSE)>>]
         ELSE LET rest == LoadOne(kind, entry, i, k + 1, fail)
              IN  [err |-> rest.err,
                   calls |-> <<LoadCall(kind, entry.Name, LoadStages[k], TRUE)>>
                                 \o rest.calls]

\* the `for _, cfg := range list` loop of a loader
RECURSIVE LoadList(_, _, _, _)
LoadList(kind, list, i, fail) ==
    IF i > Len(list) THEN [err |-> FALSE, calls |-> <<>>]
    ELSE LET one == LoadOne(kind, list[i], i, 1, fail)
         IN  IF one.err THEN one
             ELSE LET rest == LoadList(kind, list, i + 1, fail)
                  IN  [err |-> rest.err, calls |-> one.calls \o rest.calls]

LocalNomadAPM == [Name |-> "local-nomad", Driver |-> "nomad-apm"]
LocalNomadTarget == [Name |-> "local-nomad", Driver |-> "nomad"]

loadAPMPlugins(cfg, fail) ==
    LET c2 == [cfg EXCEPT !.APMs = Append(@, LocalNomadAPM)]
        r == LoadList("apm", c2.APMs, 1, fail)
    IN  [err |-> r.err, calls |-> r.calls, config |-> c2]

\* a target loader that registers the configured targets only
loadTargetPluginsNoBuiltin(cfg, fail) ==
    LET r == LoadList("target", cfg.Targets, 1, fail)
    IN  [err |-> r.err, calls |-> r.calls, config |-> cfg]

loadTargetPlugins(cfg, fail) ==
    LET c2 == [cfg EXCEPT !.Targets = Append(@, LocalNomadTarget)]
        r == LoadList("target", c2.Targets, 1, fail)
    IN  [err |-> r.err, calls |-> r.calls, config |-> c2]

loadStrategyPlugins(cfg, fail) ==
    LET r == LoadList("strategy", cfg.Strategies, 1, fail)
    IN  [err |-> r.err, calls |-> r.calls, config |-> cfg]

\* a load pass that drops the error of the strategy loader
loadPluginsDropsStrategyError(cfg, fail) ==
    LET a == loadAPMPlugins(cfg, fail)
    IN  IF a.err THEN a
        ELSE LET t == loadTargetPlugins(a.config, fail)
             IN  IF t.err
                 THEN [err |-> TRUE, calls |-> a.calls \o t.calls, config |-> t.config]
                 ELSE LET s == loadStrategyPlugins(t.config, fail)
                      IN  [err |-> FALSE, calls |-> a.calls \o t.calls \o s.calls,
                           config |-> s.config]

loadPlugins(cfg, fail) ==
    LET a == loadAPMPlugins(cfg, fail)
    IN  IF a.err THEN a
        ELSE LET t == loadTargetPlugins(a.config, fail)
             IN  IF t.err
                 THEN [err |-> TRUE, calls |-> a.calls \o t.calls, config |-> t.config]
                 ELSE LET s == loadStrategyPlugins(t.config, fail)
                      IN  [err |-> s.err, calls |-> a.calls \o t.calls \o s.calls,
                           config |-> s.config]

NoStartup == [clientErr |-> FALSE, loaded |-> FALSE, calls |-> <<>>]

\* a call of the load pass failed
LoadFailed(st) == \E k \in 1..Len(st.calls) : ~st.calls[k].ok

(***************************************************************************)
(* handlePolicy: one evaluation cycle.  The input `o` gives the result of  *)
(* every provider call of the cycle; the result lists the provider calls   *)
(* made, in order, and the stage whose error ended the cycle.              *)
(***************************************************************************)
Actions == {[Count |-> 4, Reason |-> "scale out"], [Count |-> 1, Reason |-> "scale in"]}

RECURSIVE SeqsUpTo(_, _)
SeqsUpTo(S, n) ==
    IF n = 0 THEN {<<>>}
    ELSE LET shorter == SeqsUpTo(S, n - 1)
         IN  shorter \cup {Append(q, x) : q \in {r \in shorter : Len(r) = n - 1}, x \in S}

CountResults == {[err |-> TRUE, val |-> 0], [err |-> FALSE, val |-> 2], [err |-> FALSE, val |-> 3]}
QueryResults == {[err |-> TRUE, val |-> 0], [err |-> FALSE, val |-> 80], [err |-> FALSE, val |-> 20]}
RunResults ==
    {[err |-> TRUE, actions |-> <<>>]}
        \cup {[err |-> FALSE, actions |-> a] : a \in SeqsUpTo(Actions, MaxActions)}

\* scaleFailAt = k > 0: the k-th Scale call of the cycle returns an error
Outcomes ==
    [dispTarget : BOOLEAN, dispAPM : BOOLEAN, dispStrategy : BOOLEAN,
     count : CountResults, query : QueryResults, run : RunResults,
     scaleFailAt : 0..MaxActions]

DispenseCall(kind, name) == [op |-> "Dispense", kind |-> kind, name |-> name]
CountCall(target, cfg) == [op |-> "Count", on |-> target, config |-> cfg]
QueryCall(apm, q) == [op |-> "Query", on |-> apm, query |-> q]
RunCall(strategy, req) == [op |-> "Run", on |-> strategy, req |-> req]
ScaleCall(target, action, cfg) ==
    [op |-> "Scale", on |-> target, action |-> action, config |-> cfg]

Cycle(calls, failed) == [calls |-> calls, failed |-> failed]

RunRequestSwapsBounds(p, currentCount, value) ==
    [CurrentCount |-> currentCount, MinCount |-> p.Strategy.Max,
     MaxCount |-> p.Strategy.Min, CurrentValue |-> value,
     Config |-> p.Strategy.Config]

RunRequest(p, currentCount, value) ==
    [CurrentCount |-> currentCount, MinCount |-> p.Strategy.Min,
     MaxCount |-> p.Strategy.Max, CurrentValue |-> value,
     Config |-> p.Strategy.Config]

\* a scale loop that logs a failed Scale and goes on with the next action
RECURSIVE ScaleTargetContinuesAfterFailure(_, _, _, _)
ScaleTargetContinuesAfterFailure(p, actions, failAt, i) ==
    IF i > Len(actions) THEN Cycle(<<>>, None)
    ELSE LET c == ScaleCall(p.Target.Name, actions[i], p.Target.Config)
             rest == ScaleTargetContinuesAfterFailure(p, actions, failAt, i + 1)
         IN  Cycle(<<c>> \o rest.calls, IF i = failAt THEN "Scale" ELSE rest.failed)

\* the `for _, action := range results.Actions` loop, from action i on
RECURSIVE ScaleTarget(_, _, _, _)
ScaleTarget(p, actions, failAt, i) ==
    IF i > Len(actions) THEN Cycle(<<>>, None)
    ELSE LET c == ScaleCall(p.Target.Name, actions[i], p.Target.Config)
         IN  IF i = failAt THEN Cycle(<<c>>, "Scale")
             ELSE LET rest == ScaleTarget(p, actions, failAt, i + 1)
                  IN  Cycle(<<c>> \o rest.calls, rest.failed)

\* an empty result taken for a failed scale of the current count
ApplyResultsEmptyIsError(p, actions, failAt) ==
    IF Len(actions) = 0
    THEN Cycle(<<ScaleCall(p.Target.Name, [Count |-> 0, Reason |-> ""], p.Target.Config)>>,
               "Scale")
    ELSE ScaleTarget(p, actions, failAt, 1)

\* what handlePolicy does with the strategy's result
ApplyResults(p, actions, failAt) ==
    IF Len(actions) = 0 THEN Cycle(<<>>, None)
    ELSE ScaleTarget(p, actions, failAt, 1)

\* a cycle that dispenses each plugin right before its first use
handlePolicyDispensesLate(p, o) ==
    LET dT == DispenseCall("target", p.Target.Name)
        dA == DispenseCall("apm", p.Source)
        dS == DispenseCall("strategy", p.Strategy.Name)
        cC == CountCall(p.Target.Name, p.Target.Config)
        cQ == QueryCall(p.Source, p.Query)
        cR == RunCall(p.Strategy.Name, RunRequest(p, o.count.val, o.query.val))
    IN  IF ~o.dispTarget THEN Cycle(<<dT>>, "DispenseTarget")
        ELSE IF o.count.err THEN Cycle(<<dT, cC>>, "Count")
        ELSE IF ~o.dispAPM THEN Cycle(<<dT, cC, dA>>, "DispenseAPM")
        ELSE IF o.query.err THEN Cycle(<<dT, cC, dA, cQ>>, "Query")
        ELSE IF ~o.dispStrategy THEN Cycle(<<dT, cC, dA, cQ, dS>>, "DispenseStrategy")
        ELSE IF o.run.err THEN Cycle(<<dT, cC, dA, cQ, dS, cR>>, "Run")
        ELSE LET r == ApplyResults(p, o.run.actions, o.scaleFailAt)
             IN  Cycle(<<dT, cC, dA, cQ, dS, cR>> \o r.calls, r.failed)

\* a cycle that goes on to the strategy after a failed Query
handlePolicyIgnoresQueryError(p, o) ==
    LET dT == DispenseCall("target", p.Target.Name)
        dA == DispenseCall("apm", p.Source)
        dS == DispenseCall("strategy", p.Strategy.Name)
        cC == CountCall(p.Target.Name, p.Target.Config)
        cQ == QueryCall(p.Source, p.Query)
        cR == RunCall(p.Strategy.Name, RunRequest(p, o.count.val, o.query.val))
    IN  IF ~o.dispTarget THEN Cycle(<<dT>>, "DispenseTarget")
        ELSE IF ~o.dispAPM THEN Cycle(<<dT, dA>>, "DispenseAPM")
        ELSE IF ~o.dispStrategy THEN Cycle(<<dT, dA, dS>>, "DispenseStrategy")
        ELSE IF o.count.err THEN Cycle(<<dT, dA, dS, cC>>, "Count")
        ELSE IF o.run.err THEN Cycle(<<dT, dA, dS, cC, cQ, cR>>, "Run")
        ELSE LET r == ApplyResults(p, o.run.actions, o.scaleFailAt)
             IN  Cycle(<<dT, dA, dS, cC, cQ, cR>> \o r.calls,
                       IF o.query.err /\ r.failed = None THEN "Query" ELSE r.failed)

handlePolicy(p, o) ==
    LET dT == DispenseCall("target", p.Target.Name)
        dA == DispenseCall("apm", p.Source)
        dS == DispenseCall("strategy", p.Strategy.Name)
        cC == CountCall(p.Target.Name, p.Target.Config)
        cQ == QueryCall(p.Source, p.Query)
        cR == RunCall(p.Strategy.Name, RunRequest(p, o.count.val, o.query.val))
    IN  IF ~o.dispTarget THEN Cycle(<<dT>>, "DispenseTarget")
        ELSE IF ~o.dispAPM THEN Cycle(<<dT, dA>>, "DispenseAPM")
        ELSE IF ~o.dispStrategy THEN Cycle(<<dT, dA, dS>>, "DispenseStrategy")
        ELSE IF o.count.err THEN Cycle(<<dT, dA, dS, cC>>, "Count")
        ELSE IF o.query.err THEN Cycle(<<dT, dA, dS, cC, cQ>>, "Query")
        ELSE IF o.run.err THEN Cycle(<<dT, dA, dS, cC, cQ, cR>>, "Run")
        ELSE LET r == ApplyResults(p, o.run.actions, o.scaleFailAt)
             IN  Cycle(<<dT, dA, dS, cC, cQ, cR>> \o r.calls, r.failed)

FailStages == {"DispenseTarget", "DispenseAPM", "DispenseStrategy", "Count",
               "Query", "Run", "Scale"}

\* one outcome per way a cycle can end, for the monitors of the supervisor
OkOutcome ==
    [dispTarget |-> TRUE, dispAPM |-> TRUE, dispStrategy |-> TRUE,
     count |-> [err |-> FALSE, val |-> 2], query |-> [err |-> FALSE, val |-> 80],
     run |-> [err |-> FALSE, actions |-> <<[Count |-> 4, Reason |-> "scale out"]>>],
     scaleFailAt |-> 0]

StageOutcomes ==
    {OkOutcome,
     [OkOutcome EXCEPT !.run = [err |-> FALSE, actions |-> <<>>]],
     [OkOutcome EXCEPT !.dispTarget = FALSE],
     [OkOutcome EXCEPT !.dispAPM = FALSE],
     [OkOutcome EXCEPT !.dispStrategy = FALSE],
     [OkOutcome EXCEPT !.count = [err |-> TRUE, val |-> 0]],
     [OkOutcome EXCEPT !.query = [err |-> TRUE, val |-> 0]],
     [OkOutcome EXCEPT !.run = [err |-> TRUE, actions |-> <<>>]],
     [OkOutcome EXCEPT !.scaleFailAt = 1]}


(***************************************************************************)
(* Agent.Run: startup                                                      *)
(***************************************************************************)
EmptyMap == [id \in {} |-> 0]
NoSet == {None}
NoRecon == [cur |-> NoSet, started |-> <<>>, cancelInvoked |-> {}]
NoLog == [ev |-> None, failed |-> None]
NoInput == [p |-> NoPolicy, o |-> None]
NoCycle == [calls |-> <<>>, failed |-> "pending"]
NoIndex == [tracked |-> 0, old |-> 0, new |-> 0, changed |-> FALSE, observed |-> FALSE]

Init ==
    /\ config \in Configs
    /\ runPc = "start"
    /\ runErr = "pending"
    /\ startup = NoStartup
    /\ ctxDone = FALSE
    /\ policyMonitors = EmptyMap
    /\ monitors = <<>>
    /\ cancelled = {}
    /\ cancelRequested = {}
    /\ recon = NoRecon
    /\ deliveries = 0
    /\ killed = [k \in Kinds |-> 0]
    /\ lastLog = NoLog
    /\ hpIn = NoInput
    /\ hpOut = NoCycle
    /\ index = NoIndex

\* Run up to the loop: api.NewClient, then loadPlugins; either may fail
RunStart ==
    /\ runPc = "start"
    /\ \E clientErr \in BOOLEAN, fail \in LoadOutcomes :
        IF clientErr
        THEN /\ startup' = [NoStartup EXCEPT !.clientErr = TRUE]
             /\ runPc' = "returned"
             /\ runErr' = "failed to instantiate Nomad client"
             /\ config' = config
        ELSE LET r == loadPlugins(config, fail)
             IN  /\ startup' = [clientErr |-> FALSE, loaded |-> TRUE, calls |-> r.calls]
                 /\ config' = r.config
                 /\ IF r.err
                    THEN /\ runPc' = "returned"
                         /\ runErr' = "failed to load plugins"
                    ELSE /\ runPc' = "loop"
                         /\ runErr' = runErr
    /\ UNCHANGED <<ctxDone, policyMonitors, monitors, cancelled, cancelRequested,
                   recon, deliveries, killed, lastLog, hpIn, hpOut, index>>

(***************************************************************************)
(* Agent.Run: a policy list received on policiesCn                         *)
(***************************************************************************)
\* the policy lists the source delivers, as the IDs of their policies
PolicyLists == SeqsUpTo(PolicyIDs, MaxPolicies)

Range(q) == {q[k] : k \in 1..Len(q)}

HasMonitorNever(pm, id) == FALSE

\* `_, ok := policyMonitors[p.ID]`
HasMonitor(pm, id) == id \in DOMAIN pm

\* the first loop, from policy i on: pm is the map so far, started the IDs
\* a monitor was started for, base the number of monitors started before
RECURSIVE StartMonitors(_, _, _, _, _)
StartMonitors(policies, i, pm, started, base) ==
    IF i > Len(policies) THEN [pm |-> pm, started |-> started]
    ELSE IF HasMonitor(pm, policies[i])
         THEN StartMonitors(policies, i + 1, pm, started, base)
         ELSE StartMonitors(policies, i + 1,
                            (policies[i] :> (base + Len(started) + 1)) @@ pm,
                            Append(started, policies[i]), base)

\* a second loop that tears every monitor down
CancelOldAll(pm, policies) == DOMAIN pm

\* the second loop: the IDs whose cancel() is called
CancelOld(pm, policies) ==
    {id \in DOMAIN pm : \A k \in 1..Len(policies) : policies[k] # id}

\* a monitorPolicy goroutine between its start and its first select
NewMonitor(id) ==
    [id |-> id, pc |-> "wait", interval |-> DefaultSleep(config), policy |-> NoPolicy]

RunPolicies ==
    /\ runPc = "loop"
    /\ deliveries < MaxDeliveries
    /\ \E policies \in PolicyLists :
        LET s == StartMonitors(policies, 1, policyMonitors, <<>>, Len(monitors))
            toCancel == CancelOld(s.pm, policies)
            fresh == (Len(monitors) + 1)..(Len(monitors) + Len(s.started))
        IN  /\ monitors' = monitors \o [k \in 1..Len(s.started) |-> NewMonitor(s.started[k])]
            /\ policyMonitors' = s.pm
            \* a context derived from a cancelled parent is born cancelled
            /\ cancelled' = cancelled \cup {s.pm[id] : id \in toCancel}
                                \cup (IF ctxDone THEN fresh ELSE {})
            /\ recon' = [cur |-> Range(policies), started |-> s.started, cancelInvoked |-> toCancel]
    /\ deliveries' = deliveries + 1
    /\ UNCHANGED <<config, runPc, runErr, startup, ctxDone, cancelRequested,
                   killed, lastLog, hpIn, hpOut, index>>

(***************************************************************************)
(* Agent.Run: an error received on errCn                                   *)
(***************************************************************************)
\* an error handler that tears the monitors down
RunErrorCancelsAll ==
    /\ runPc = "loop"
    /\ lastLog' = [ev |-> "failed to fetch policies", failed |-> None]
    /\ cancelled' = cancelled \cup {policyMonitors[id] : id \in DOMAIN policyMonitors}
    /\ UNCHANGED <<config, runPc, runErr, startup, ctxDone, policyMonitors,
                   monitors, cancelRequested, recon, deliveries, killed,
                   hpIn, hpOut, index>>

RunError ==
    /\ runPc = "loop"
    /\ lastLog' = [ev |-> "failed to fetch policies", failed |-> None]
    /\ UNCHANGED <<config, runPc, runErr, startup, ctxDone, policyMonitors,
                   monitors, cancelled, cancelRequested, recon, deliveries,
                   killed, hpIn, hpOut, index>>

(***************************************************************************)
(* Shutdown: ctx is cancelled by the caller of Run; Run handles ctx.Done() *)
(***************************************************************************)
CtxCancel ==
    /\ ~ctxDone
    /\ ctxDone' = TRUE
    /\ UNCHANGED <<config, runPc, runErr, startup, policyMonitors, monitors,
                   cancelled, cancelRequested, recon, deliveries, killed,
                   lastLog, hpIn, hpOut, index>>

\* the cancellation of ctx reaches a context derived from it
CtxPropagate(h) ==
    /\ ctxDone
    /\ h \in (1..Len(monitors)) \ cancelled
    /\ cancelled' = cancelled \cup {h}
    /\ UNCHANGED <<config, runPc, runErr, startup, ctxDone, policyMonitors,
                   monitors, cancelRequested, recon, deliveries, killed,
                   lastLog, hpIn, hpOut, index>>

\* Run skips the spawning of the cancel goroutines
RunShutdownNoCancel ==
    /\ runPc = "loop"
    /\ ctxDone
    /\ runPc' = "kill_apm"
    /\ UNCHANGED <<config, runErr, startup, ctxDone, policyMonitors, monitors,
                   cancelled, cancelRequested, recon, deliveries, killed, lastLog, hpIn, hpOut, index>>

\* `case <-ctx.Done()`: one `go cancel()` per entry of the map
RunShutdown ==
    /\ runPc = "loop"
    /\ ctxDone
    /\ cancelRequested' = {policyMonitors[id] : id \in DOMAIN policyMonitors}
    /\ runPc' = "kill_apm"
    /\ UNCHANGED <<config, runErr, startup, ctxDone, policyMonitors, monitors,
                   cancelled, recon, deliveries, killed, lastLog, hpIn, hpOut, index>>

\* a goroutine spawned by `go cancel()` runs
CancelGoroutine(h) ==
    /\ h \in cancelRequested \ cancelled
    /\ cancelled' = cancelled \cup {h}
    /\ UNCHANGED <<config, runPc, runErr, startup, ctxDone, policyMonitors,
                   monitors, cancelRequested, recon, deliveries, killed,
                   lastLog, hpIn, hpOut, index>>

Kill(kind, next) ==
    /\ killed' = [killed EXCEPT ![kind] = @ + 1]
    /\ runPc' = next
    /\ UNCHANGED <<config, runErr, startup, ctxDone, policyMonitors, monitors,
                   cancelled, cancelRequested, recon, deliveries, lastLog, hpIn, hpOut, index>>

RunKillAPM == runPc = "kill_apm" /\ Kill("apm", "kill_target")

RunKillTarget == runPc = "kill_target" /\ Kill("target", "kill_strategy")

RunKillStrategy == runPc = "kill_strategy" /\ Kill("strategy", "return")

\* `break Loop` and `return nil`
RunReturn ==
    /\ runPc = "return"
    /\ runPc' = "returned"
    /\ runErr' = "nil"
    /\ UNCHANGED <<config, startup, ctxDone, policyMonitors, monitors, cancelled,
                   cancelRequested, recon, deliveries, killed, lastLog,
                   hpIn, hpOut, index>>

(***************************************************************************)
(* Agent.monitorPolicy: the goroutine of handle h                          *)
(***************************************************************************)
MonitorHandles == 1..Len(monitors)

\* a Done case whose `break` leaves the select only, not the loop
MonitorStopBreaksSelectOnly(h) ==
    /\ h \in MonitorHandles
    /\ monitors[h].pc = "wait"
    /\ h \in cancelled
    /\ UNCHANGED vars

\* `case <-ctx.Done()`
MonitorStop(h) ==
    /\ h \in MonitorHandles
    /\ monitors[h].pc = "wait"
    /\ h \in cancelled
    \* the goroutine returns: its ticker and locals are gone
    /\ monitors' = [monitors EXCEPT ![h].pc = "exited", ![h].interval = 0]
    /\ UNCHANGED <<config, runPc, runErr, startup, ctxDone, policyMonitors,
                   cancelled, cancelRequested, recon, deliveries, killed,
                   lastLog, hpIn, hpOut, index>>

\* the goroutine is at its select: a tick of its ticker starts a cycle
TickReady(h) == h \in MonitorHandles /\ monitors[h].pc = "wait"

\* a tick that falls back to the default ticker when the fetch fails
MonitorTickFetchErrorResetsTicker(h) ==
    /\ TickReady(h)
    /\ \E r \in GetResults(monitors[h].id) :
        IF r.err
        THEN /\ monitors' = [monitors EXCEPT ![h].interval = DefaultSleep(config)]
             /\ lastLog' = [ev |-> "failed to fetch policy", failed |-> None]
        ELSE /\ monitors' = [monitors EXCEPT
                                ![h].pc = "handling",
                                ![h].interval = SleepDuration(DefaultSleep(config), r.policy),
                                ![h].policy = r.policy]
             /\ lastLog' = lastLog
    /\ UNCHANGED <<config, runPc, runErr, startup, ctxDone, policyMonitors,
                   cancelled, cancelRequested, recon, deliveries, killed,
                   hpIn, hpOut, index>>

\* `case <-ticker.C`: fetch the policy, replace the ticker
MonitorTick(h) ==
    /\ TickReady(h)
    /\ \E r \in GetResults(monitors[h].id) :
        IF r.err
        THEN /\ monitors' = monitors
             /\ lastLog' = [ev |-> "failed to fetch policy", failed |-> None]
        ELSE /\ monitors' = [monitors EXCEPT
                                ![h].pc = "handling",
                                ![h].interval = SleepDuration(DefaultSleep(config), r.policy),
                                ![h].policy = r.policy]
             /\ lastLog' = lastLog
    /\ UNCHANGED <<config, runPc, runErr, startup, ctxDone, policyMonitors,
                   cancelled, cancelRequested, recon, deliveries, killed,
                   hpIn, hpOut, index>>

\* where the monitor goes after handlePolicy returned
AfterCycleExitsOnError(c) == IF c.failed = None THEN "wait" ELSE "exited"

AfterCycle(c) == "wait"

\* `a.handlePolicy(policy)` and back to the select
MonitorHandle(h) ==
    /\ h \in MonitorHandles
    /\ monitors[h].pc = "handling"
    /\ \E o \in StageOutcomes :
        LET c == handlePolicy(monitors[h].policy, o)
        IN  /\ monitors' = [monitors EXCEPT ![h].pc = AfterCycle(c),
                                            ![h].policy = NoPolicy]
            /\ lastLog' = [ev |-> "cycle", failed |-> c.failed]
    /\ UNCHANGED <<config, runPc, runErr, startup, ctxDone, policyMonitors,
                   cancelled, cancelRequested, recon, deliveries, killed,
                   hpIn, hpOut, index>>

Next ==
    \/ RunStart
    \/ RunPolicies
    \/ RunError
    \/ CtxCancel
    \/ RunShutdown
    \/ RunKillAPM
    \/ RunKillTarget
    \/ RunKillStrategy
    \/ RunReturn
    \/ \E h \in 1..(MaxDeliveries * MaxPolicies) :
        \/ CtxPropagate(h)
        \/ CancelGoroutine(h)
        \/ MonitorStop(h)
        \/ MonitorTick(h)
        \/ MonitorHandle(h)

Spec == Init /\ [][Next]_vars

(***************************************************************************)
(* handlePolicy on its own: every policy and every outcome of the calls    *)
(***************************************************************************)
PipelinePolicies ==
    {Policy("p1", 0, src, tgt, str, min, max) :
        src \in {"local-nomad", "prometheus"}, tgt \in {"local-nomad", "aws-asg"},
        str \in {"target-value"}, min \in {1, 2}, max \in {9, 10}}

PipelineInit ==
    /\ config \in {c \in Configs : Len(c.APMs) = 0}
    /\ runPc = "start"
    /\ runErr = "pending"
    /\ startup = NoStartup
    /\ ctxDone = FALSE
    /\ policyMonitors = EmptyMap
    /\ monitors = <<>>
    /\ cancelled = {}
    /\ cancelRequested = {}
    /\ recon = NoRecon
    /\ deliveries = 0
    /\ killed = [k \in Kinds |-> 0]
    /\ lastLog = NoLog
    /\ hpIn \in [p : PipelinePolicies, o : Outcomes]
    /\ hpOut = NoCycle
    /\ index = NoIndex

PipelineRun ==
    /\ hpOut = NoCycle
    /\ hpOut' = handlePolicy(hpIn.p, hpIn.o)
    /\ UNCHANGED <<hpIn, index, supervisorVars>>

PipelineNext == PipelineRun

PipelineSpec == PipelineInit /\ [][PipelineNext]_vars


(***************************************************************************)
(* Properties of the supervisor (Agent.Run)                                *)
(***************************************************************************)
\* IDs with a running monitor: started and its context not cancelled
RunningIDs == {monitors[h].id : h \in MonitorHandles \ cancelled}

LiveMonitors(id) ==
    {h \in MonitorHandles : monitors[h].id = id /\ monitors[h].pc # "exited"}

\* C1: once Run has processed a policy set that followed another one, and
\* while no shutdown was signalled, the IDs with a running monitor are
\* exactly the IDs of the set processed last.
C1_ReconciliationConvergence ==
    (runPc = "loop" /\ ~ctxDone /\ deliveries >= 2) => RunningIDs = recon.cur

\* C2: every policy ID has at most one monitorPolicy goroutine that was
\* started and has not returned, cancelled ones still in a cycle included.
C2_AtMostOneLiveMonitor ==
    \A id \in PolicyIDs : Cardinality(LiveMonitors(id)) <= 1

\* a policy dropped and delivered again while its cancelled monitor is
\* still inside a cycle
C2_Witness ==
    /\ ~ctxDone
    /\ deliveries >= 3
    /\ \E h \in MonitorHandles :
        /\ h \in cancelled
        /\ monitors[h].pc = "handling"
        /\ monitors[h].id \in recon.cur

\* C3: processing a policy set equal to the one processed just before
\* starts no monitor and invokes no cancellation handle.
C3_NoDuplicateMonitors ==
    [][(deliveries' = deliveries + 1 /\ recon'.cur = recon.cur)
           => (recon'.started = <<>> /\ recon'.cancelInvoked = {})]_vars

\* C4: a cycle that failed at any stage leaves its monitor at the select,
\* where the next tick fetches the policy again, with its ID and ticker
\* untouched, and changes no other monitor, nor the monitor map, nor any
\* context, nor the position of Run.
C4_CycleIsolation ==
    [][\A h \in MonitorHandles :
          (monitors[h].pc = "handling" /\ monitors'[h].pc # "handling"
              /\ lastLog'.failed \in FailStages)
          => /\ TickReady(h)'
             /\ monitors'[h].id = monitors[h].id
             /\ monitors'[h].interval = monitors[h].interval
             /\ Len(monitors') = Len(monitors)
             /\ \A g \in MonitorHandles \ {h} : monitors'[g] = monitors[g]
             /\ policyMonitors' = policyMonitors
             /\ cancelled' = cancelled
             /\ runPc' = runPc /\ runErr' = runErr]_vars

\* the only monitor failed a cycle at Query and, not cancelled, is inside
\* its next cycle
C4_Witness ==
    /\ Len(monitors) = 1
    /\ 1 \notin cancelled
    /\ lastLog = [ev |-> "cycle", failed |-> "Query"]
    /\ monitors[1].pc = "handling"

ReturnedNil == runPc = "returned" /\ runErr = "nil"
StartupFailed == startup.clientErr \/ LoadFailed(startup)

\* C5: no manager is killed before ctx is done and `go cancel()` was
\* executed for every entry of the monitor map; each manager is killed at
\* most once, in the order apm, target, strategy; a Run that entered its
\* loop returns nil, and only with each of the three managers killed once.
C5_ShutdownOrdering ==
    /\ (\E k \in Kinds : killed[k] > 0)
          => /\ ctxDone
             /\ cancelRequested = {policyMonitors[id] : id \in DOMAIN policyMonitors}
    /\ \A k \in Kinds : killed[k] <= 1
    /\ killed["strategy"] <= killed["target"] /\ killed["target"] <= killed["apm"]
    /\ (runPc = "returned" /\ ~StartupFailed)
          => (runErr = "nil" /\ \A k \in Kinds : killed[k] = 1)

\* Run has returned nil with every manager killed while a monitor it asked
\* to cancel is still inside a cycle, its context not yet cancelled
C5_Witness ==
    /\ ReturnedNil
    /\ \A k \in Kinds : killed[k] = 1
    /\ \E h \in cancelRequested \ cancelled : monitors[h].pc = "handling"

\* C9: handling a value of the error feed starts no monitor, cancels no
\* context, spawns no cancel, changes neither the monitor map nor any
\* monitor, kills no manager and leaves Run in its loop.
FeedError == [ev |-> "failed to fetch policies", failed |-> None]

C9_ErrorFeedNoOp ==
    [][(lastLog' = FeedError /\ lastLog # FeedError)
          => /\ runPc = "loop" /\ runPc' = "loop"
             /\ monitors' = monitors
             /\ policyMonitors' = policyMonitors
             /\ cancelled' = cancelled
             /\ cancelRequested' = cancelRequested
             /\ killed' = killed
             /\ runErr' = runErr]_vars

\* a feed error was the last thing logged, with a running monitor
C9_Witness ==
    /\ lastLog = FeedError
    /\ runPc = "loop"
    /\ \E h \in MonitorHandles \ cancelled : monitors[h].pc = "wait"

\* C10: Run returns a non-nil error exactly when api.NewClient or a call
\* of the load pass failed, and then no monitor was ever started and Run
\* has returned; a Run that returned nil did so after ctx was done.
C10_ErrorOnlyAtStartup ==
    /\ StartupFailed => (runPc = "returned" /\ runErr \notin {"nil", "pending"}
                            /\ Len(monitors) = 0)
    /\ runPc = "returned" => (runErr # "nil" <=> StartupFailed)
    /\ runPc # "returned" => runErr = "pending"
    /\ ReturnedNil => ctxDone

\* the SetConfig of a configured strategy plugin failed and Run returned it
C10_Witness ==
    /\ runPc = "returned"
    /\ runErr = "failed to load plugins"
    /\ Len(monitors) = 0
    /\ \E k \in 1..Len(startup.calls) :
        startup.calls[k] = LoadCall("strategy", "target-value", "SetConfig", FALSE)

CallsOf(c, op) == {k \in 1..Len(c.calls) : c.calls[k].op = op}

Evaluated == hpOut # NoCycle

\* C6: a cycle whose Run call succeeds with no action makes no Scale call
\* and ends without an error.
C6_NoActionNoOp ==
    (Evaluated /\ CallsOf(hpOut, "Run") # {} /\ ~hpIn.o.run.err
        /\ hpIn.o.run.actions = <<>>)
      => (CallsOf(hpOut, "Scale") = {} /\ hpOut.failed = None)

C6_Witness ==
    /\ Evaluated
    /\ CallsOf(hpOut, "Run") # {}
    /\ ~hpIn.o.run.err
    /\ hpIn.o.run.actions = <<>>
    /\ hpIn.o.scaleFailAt = 1

\* C7: in a cycle without a failure, Run is called once, with the count
\* Count returned, the value Query returned and the policy's Min, Max and
\* strategy Config; every Scale call carries an action Run returned and
\* the policy's target Config; one action gives exactly one Scale call.
C7_PipelineDataFlow ==
    (Evaluated /\ hpOut.failed = None)
      => /\ \E k \in 1..Len(hpOut.calls) : CallsOf(hpOut, "Run") = {k}
         /\ \A k \in CallsOf(hpOut, "Run") :
              /\ hpOut.calls[k].req.CurrentCount = hpIn.o.count.val
              /\ hpOut.calls[k].req.CurrentValue = hpIn.o.query.val
              /\ hpOut.calls[k].req.MinCount = hpIn.p.Strategy.Min
              /\ hpOut.calls[k].req.MaxCount = hpIn.p.Strategy.Max
              /\ hpOut.calls[k].req.Config = hpIn.p.Strategy.Config
         /\ \A k \in CallsOf(hpOut, "Scale") :
              /\ hpOut.calls[k].action \in Range(hpIn.o.run.actions)
              /\ hpOut.calls[k].config = hpIn.p.Target.Config
         /\ Len(hpIn.o.run.actions) = 1 => Cardinality(CallsOf(hpOut, "Scale")) = 1

\* Count 2, Query 80, one action {4, "scale out"}: one Scale call
C7_Witness ==
    /\ Evaluated
    /\ hpOut.failed = None
    /\ hpIn.o.count.val = 2
    /\ hpIn.o.query.val = 80
    /\ hpIn.o.run.actions = <<[Count |-> 4, Reason |-> "scale out"]>>
    /\ \E k \in 1..Len(hpOut.calls) :
        hpOut.calls[k] = ScaleCall(hpIn.p.Target.Name,
                                   [Count |-> 4, Reason |-> "scale out"],
                                   hpIn.p.Target.Config)


(***************************************************************************)
(* helper/blocking: tracking the index of a blocking query                 *)
(***************************************************************************)
Indexes == 0..MaxIndex

IndexHasChangeOnEqual(new, old) == IF new < old THEN FALSE ELSE TRUE

IndexHasChange(new, old) == IF new <= old THEN FALSE ELSE TRUE

FindMaxFound(new, old) == IF new <= old THEN old ELSE new

BlockingInit ==
    /\ config \in {c \in Configs : Len(c.APMs) = 0}
    /\ runPc = "start"
    /\ runErr = "pending"
    /\ startup = NoStartup
    /\ ctxDone = FALSE
    /\ policyMonitors = EmptyMap
    /\ monitors = <<>>
    /\ cancelled = {}
    /\ cancelRequested = {}
    /\ recon = NoRecon
    /\ deliveries = 0
    /\ killed = [k \in Kinds |-> 0]
    /\ lastLog = NoLog
    /\ hpIn = NoInput
    /\ hpOut = NoCycle
    /\ index \in {[NoIndex EXCEPT !.tracked = t] : t \in Indexes}

\* a query returned index `new`: test it against the tracked value, then
\* tracked := FindMaxFound(new, tracked)
Observe ==
    /\ \E new \in Indexes :
        index' = [old |-> index.tracked, new |-> new,
                  changed |-> IndexHasChange(new, index.tracked),
                  tracked |-> FindMaxFound(new, index.tracked),
                  observed |-> TRUE]
    /\ UNCHANGED <<hpIn, hpOut, supervisorVars>>

BlockingNext == Observe

BlockingSpec == BlockingInit /\ [][BlockingNext]_vars

\* C20: FindMaxFound gives the larger of its arguments and IndexHasChange
\* holds exactly when new > old; so the tracked index never decreases,
\* IndexHasChange told exactly whether the assignment changed it, and it
\* is false for the value just tracked.
C20_IndexTrackingMonotone ==
    index.observed
      => /\ index.tracked >= index.old /\ index.tracked >= index.new
         /\ index.tracked \in {index.old, index.new}
         /\ index.changed <=> index.new > index.old
         /\ index.changed <=> index.tracked # index.old
         /\ ~IndexHasChange(index.new, index.tracked)
         /\ ~IndexHasChange(index.tracked, index.tracked)

\* a smaller index observed after a larger one: the tracked one stays
C20_Witness ==
    /\ index.observed
    /\ index.new < index.old
    /\ index.tracked = index.old
    /\ ~index.changed


(***************************************************************************)
(* Properties of the plugin load pass                                      *)
(***************************************************************************)
\* names a RegisterPlugin call of the pass succeeded for, per manager
Registered(kind) ==
    {startup.calls[k].name :
        k \in {j \in 1..Len(startup.calls) :
                  /\ startup.calls[j].kind = kind
                  /\ startup.calls[j].stage = "RegisterPlugin"
                  /\ startup.calls[j].ok}}

\* names the caller of the agent can list in its configuration
CallerNames(kind) ==
    IF kind = "apm" THEN Range(ApmNames)
    ELSE IF kind = "target" THEN Range(TargetNames)
    ELSE Range(StrategyNames)

\* names listed in a.config for a manager
ConfigNames(kind) ==
    LET list == IF kind = "apm" THEN config.APMs
                ELSE IF kind = "target" THEN config.Targets
                ELSE config.Strategies
    IN  {list[k].Name : k \in 1..Len(list)}

LoadSucceeded == startup.loaded /\ ~StartupFailed

\* C11 as stated: after a successful load pass every manager, the strategy
\* manager included, has a registered provider the caller did not
\* configure, besides every configured one.
C11_BuiltinPerKind ==
    LoadSucceeded
      => \A kind \in Kinds :
            /\ \E n \in Registered(kind) : n \notin CallerNames(kind)
            /\ ConfigNames(kind) \subseteq Registered(kind)

\* C11 amended: after a successful load pass the apm and the target
\* manager have the built-in "local-nomad" registered besides every
\* configured provider; the strategy manager has the configured strategies
\* and nothing else.
C11_BuiltinApmAndTarget ==
    LoadSucceeded
      => /\ \A kind \in {"apm", "target"} :
              /\ "local-nomad" \in Registered(kind)
              /\ "local-nomad" \notin CallerNames(kind)
              /\ ConfigNames(kind) \subseteq Registered(kind)
              /\ Registered(kind) \ {"local-nomad"} \subseteq CallerNames(kind)
         /\ Registered("strategy") = ConfigNames("strategy")
         /\ Registered("strategy") \subseteq CallerNames("strategy")

\* the pass succeeded with one configured plugin of each kind
C11_Witness ==
    /\ LoadSucceeded
    /\ runPc = "loop"
    /\ Registered("apm") = {"prometheus", "local-nomad"}
    /\ Registered("target") = {"aws-asg", "local-nomad"}
    /\ Registered("strategy") = {"target-value"}


\* C12: once Run has processed a policy set, every ID of the map that is
\* absent from the set had its cancel handle invoked and left the map: the
\* keys of the map are exactly the IDs of the set.
C12_RemovedPoliciesLeaveMap ==
    (runPc = "loop" /\ deliveries >= 1)
      => /\ recon.cancelInvoked \cap recon.cur = {}
         /\ DOMAIN policyMonitors = recon.cur


\* C13: a monitor whose context is cancelled while it waits at its select
\* starts no new cycle: its next step is not a fetch followed by
\* handlePolicy.
C13_NoCycleAfterCancel ==
    [][\A h \in MonitorHandles :
          (h \in cancelled /\ monitors[h].pc = "wait")
              => monitors'[h].pc # "handling"]_vars


(***************************************************************************)
(* Order of the stages of one cycle                                        *)
(***************************************************************************)
Stage(call) == IF call.op = "Dispense" THEN <<"Dispense", call.kind>> ELSE <<call.op>>

\* the stages of the cycle before its Scale calls, in the order performed
StagesBeforeScale ==
    [k \in 1..(Len(hpOut.calls) - Cardinality(CallsOf(hpOut, "Scale"))) |->
        Stage(hpOut.calls[k])]

ScalesComeLast ==
    \A k \in CallsOf(hpOut, "Scale") : k > Len(StagesBeforeScale)

IsPrefix(a, b) == Len(a) <= Len(b) /\ \A k \in 1..Len(a) : a[k] = b[k]

Called(op) == CallsOf(hpOut, op) # {}

ClaimedOrder ==
    << <<"Dispense", "target">>, <<"Count">>, <<"Dispense", "apm">>, <<"Query">>,
       <<"Dispense", "strategy">>, <<"Run">> >>

CodeOrder ==
    << <<"Dispense", "target">>, <<"Dispense", "apm">>, <<"Dispense", "strategy">>,
       <<"Count">>, <<"Query">>, <<"Run">> >>

\* the call of the given stage returns an error under outcome o
StageFails(o, stage) ==
    IF stage = <<"Dispense", "target">> THEN ~o.dispTarget
    ELSE IF stage = <<"Dispense", "apm">> THEN ~o.dispAPM
    ELSE IF stage = <<"Dispense", "strategy">> THEN ~o.dispStrategy
    ELSE IF stage = <<"Count">> THEN o.count.err
    ELSE IF stage = <<"Query">> THEN o.query.err
    ELSE o.run.err

\* number of stages performed when they run in `order` and stop at the
\* first one that fails
StagesPerformed(o, order) ==
    IF \E k \in 1..Len(order) : StageFails(o, order[k])
    THEN CHOOSE k \in 1..Len(order) :
            /\ StageFails(o, order[k])
            /\ \A j \in 1..(k - 1) : ~StageFails(o, order[j])
    ELSE Len(order)

\* C14 as stated: the stages run in the order dispense target, Count,
\* dispense apm, Query, dispense strategy, Run and stop at the first
\* failure; Count is called whenever the target dispense succeeds, Query
\* whenever the target dispense, Count and the apm dispense succeed.
C14_StageOrderAsStated ==
    Evaluated
      => /\ ScalesComeLast
         /\ IsPrefix(StagesBeforeScale, ClaimedOrder)
         /\ Len(StagesBeforeScale) = StagesPerformed(hpIn.o, ClaimedOrder)
         /\ hpIn.o.dispTarget => Called("Count")
         /\ (hpIn.o.dispTarget /\ ~hpIn.o.count.err /\ hpIn.o.dispAPM) => Called("Query")

\* C14 amended: the stages run in the order dispense target, dispense
\* apm, dispense strategy, Count, Query, Run and stop at the first
\* failure; Count is called exactly when the three dispenses succeed and
\* Query exactly when Count succeeds too.
C14_StageOrder ==
    Evaluated
      => /\ ScalesComeLast
         /\ IsPrefix(StagesBeforeScale, CodeOrder)
         /\ Len(StagesBeforeScale) = StagesPerformed(hpIn.o, CodeOrder)
         /\ Called("Count")
              <=> (hpIn.o.dispTarget /\ hpIn.o.dispAPM /\ hpIn.o.dispStrategy)
         /\ Called("Query")
              <=> (hpIn.o.dispTarget /\ hpIn.o.dispAPM /\ hpIn.o.dispStrategy
                      /\ ~hpIn.o.count.err)

\* the target is dispensed, the metric source is not: the cycle ends
\* without a Count although Count would have succeeded
C14_Witness ==
    /\ Evaluated
    /\ hpIn.o.dispTarget /\ ~hpIn.o.dispAPM /\ ~hpIn.o.count.err
    /\ ~Called("Count")
    /\ hpOut.failed = "DispenseAPM"


\* C15: a Dispense, Count, Query or Run call that returns an error is the
\* last call of its cycle: no later stage and no Scale call follows, and
\* the cycle ends as a plain return that names the failed stage.
C15_FailFastBeforeActing ==
    Evaluated
      => /\ \A k \in 1..Len(hpOut.calls) :
              (hpOut.calls[k].op # "Scale" /\ StageFails(hpIn.o, Stage(hpOut.calls[k])))
                  => /\ k = Len(hpOut.calls)
                     /\ ~Called("Scale")
                     /\ hpOut.failed \in FailStages \ {"Scale"}
         /\ hpOut.failed \in FailStages \ {"Scale"} => ~Called("Scale")
         /\ hpOut.failed \in FailStages \cup {None}

\* Query failed in a cycle whose strategy would have returned actions
C15_Witness ==
    /\ Evaluated
    /\ hpOut.failed = "Query"
    /\ ~hpIn.o.run.err
    /\ Len(hpIn.o.run.actions) = 2
    /\ ~Called("Run")
    /\ ~Called("Scale")


\* C16: after a Run that returned actions a1..an, n >= 1, the Scale calls
\* of the cycle are a1, a2, ... in that order, each on the target
\* dispensed in this cycle with the policy's target Config; they stop with
\* the first one that fails, which is not repeated, and number n when
\* none fails.
C16_OrderedActionsStopAtFailure ==
    (Evaluated /\ Called("Run") /\ ~hpIn.o.run.err /\ Len(hpIn.o.run.actions) >= 1)
      => LET actions == hpIn.o.run.actions
             n == Len(actions)
             fails == hpIn.o.scaleFailAt \in 1..n
             m == IF fails THEN hpIn.o.scaleFailAt ELSE n
             base == Len(StagesBeforeScale)
         IN  /\ ScalesComeLast
             /\ Cardinality(CallsOf(hpOut, "Scale")) = m
             /\ Len(hpOut.calls) = base + m
             /\ \A i \in 1..m :
                  /\ hpOut.calls[base + i].op = "Scale"
                  /\ hpOut.calls[base + i].action = actions[i]
                  /\ hpOut.calls[base + i].config = hpIn.p.Target.Config
                  /\ \E d \in CallsOf(hpOut, "Dispense") :
                        /\ hpOut.calls[d].kind = "target"
                        /\ hpOut.calls[d].name = hpOut.calls[base + i].on
             /\ hpOut.failed = IF fails THEN "Scale" ELSE None

\* two different actions returned, the Scale of the first one fails
C16_Witness ==
    /\ Evaluated
    /\ Called("Run") /\ ~hpIn.o.run.err
    /\ Len(hpIn.o.run.actions) = 2
    /\ hpIn.o.run.actions[1] # hpIn.o.run.actions[2]
    /\ hpIn.o.scaleFailAt = 1
    /\ Cardinality(CallsOf(hpOut, "Scale")) = 1
    /\ hpOut.failed = "Scale"


(***************************************************************************)
(* More properties of the supervisor and the monitors                      *)
(***************************************************************************)
\* C17: processing a policy set leaves every ID that was also in the set
\* processed before alone: its cancel handle is not invoked, no monitor is
\* started for it, its map entry keeps its handle, and its monitor and the
\* state of its context stay as they were.
C17_PersistingLeftAlone ==
    [][deliveries' = deliveries + 1
          => \A id \in (recon.cur \cap recon'.cur) \cap PolicyIDs :
                /\ id \notin recon'.cancelInvoked
                /\ id \notin Range(recon'.started)
                /\ id \in DOMAIN policyMonitors
                /\ policyMonitors'[id] = policyMonitors[id]
                /\ policyMonitors[id] \in cancelled' <=> policyMonitors[id] \in cancelled
                /\ {h \in 1..Len(monitors') : monitors'[h].id = id}
                     = {h \in MonitorHandles : monitors[h].id = id}
                /\ monitors'[policyMonitors[id]] = monitors[policyMonitors[id]]]_vars

\* p2 was started by the last set while p1, started by an earlier set and
\* never dropped, is still running
C17_Witness ==
    /\ ~ctxDone
    /\ runPc = "loop"
    /\ deliveries >= 2
    /\ recon.cur = {"p1", "p2"}
    /\ recon.started = <<"p2">>
    /\ "p1" \in DOMAIN policyMonitors
    /\ policyMonitors["p1"] \notin cancelled

FetchFailed == [ev |-> "failed to fetch policy", failed |-> None]

\* C18: a tick whose fetch fails starts no cycle and leaves every monitor,
\* its ticker and its position at the select included, as it was, so that
\* a later tick can fetch again; nothing else changes either.
C18_FetchFailureSkipsCycle ==
    [][(lastLog' = FetchFailed /\ lastLog # FetchFailed)
          => /\ monitors' = monitors
             /\ \E h \in MonitorHandles : TickReady(h) /\ TickReady(h)'
             /\ policyMonitors' = policyMonitors
             /\ cancelled' = cancelled
             /\ runPc' = runPc]_vars

\* the only monitor had a failed fetch and a later tick of it fetched the
\* policy: it is in a cycle
C18_Witness ==
    /\ Len(monitors) = 1
    /\ lastLog = FetchFailed
    /\ monitors[1].pc = "handling"
    /\ monitors[1].policy.Interval = 0
    /\ 1 \notin cancelled


(***************************************************************************)
(* Termination of cancelled monitors.  Fairness: a spawned `go cancel()`   *)
(* runs, a provider call returns (the claim's assumption), and the select  *)
(* of monitorPolicy, which picks among its ready cases at random, does not *)
(* pass over a ready ctx.Done() for ever.                                  *)
(***************************************************************************)
\* Run starts a monitor only for an ID that has no map entry and never
\* deletes an entry: there are no more handles than policy IDs
Handles == 1..Cardinality(PolicyIDs)

Fairness ==
    \A h \in Handles :
        /\ WF_vars(CancelGoroutine(h))
        /\ WF_vars(MonitorHandle(h))
        /\ SF_vars(MonitorStop(h))

FairSpec == Init /\ [][Next]_vars /\ Fairness

CancelAsked(h) == h \in MonitorHandles /\ h \in cancelled \cup cancelRequested

Exited(h) == h \in MonitorHandles /\ monitors[h].pc = "exited"

\* C19: every monitor whose cancellation was requested, by a processed
\* policy set or by the shutdown, eventually returns.
C19_CancelledMonitorsTerminate ==
    /\ [](MonitorHandles \subseteq Handles)
    /\ \A h \in Handles : CancelAsked(h) ~> Exited(h)

\* after shutdown two monitors were asked to cancel and both have returned,
\* one of them after finishing a cycle that failed
C19_Witness ==
    /\ runPc = "returned"
    /\ Len(monitors) = 2
    /\ cancelRequested = {1, 2}
    /\ Exited(1) /\ Exited(2)
    /\ lastLog = [ev |-> "cycle", failed |-> "Scale"]


====
